---- MODULE Spec2Model ----
(***************************************************************************)
(* synapsegenie: the table reconciliation engine (process_functions.py)    *)
(* and the per-center validation pipeline (input_to_database.py).          *)
(*                                                                         *)
(* A text is a sequence of chunks.  The characters the code looks at       *)
(* (",", ".", "0", the line feed, the double quote, the blank and "_") are *)
(* chunks of their own; every other chunk is an opaque run of characters   *)
(* that holds none of them.  A cell of a dataframe is a text; NULL is the  *)
(* missing value (None / NaN).                                             *)
(***************************************************************************)
EXTENDS Integers, Sequences, FiniteSets, TLC

COMMA == ","
NL == "\n"
DOT == "."
ZERO == "0"
QUOTE == "\""
SPACE == " "
USCORE == "_"

EMPTY == << >>
NULL == <<"NaN">>

---------------------------------------------------------------------------
(* Generic sequence helpers (dataframes are sequences of rows).            *)

Range(s) == {s[i] : i \in DOMAIN s}

RECURSIVE Flatten(_)
Flatten(ss) == IF ss = << >> THEN << >> ELSE Head(ss) \o Flatten(Tail(ss))

\* pandas Series.isin / boolean-mask selection keep the order of the frame
Filter(s, Keep(_)) == SelectSeq(s, Keep)

Map(s, F(_)) == [i \in DOMAIN s |-> F(s[i])]

\* sep.join(parts)
RECURSIVE Join(_, _)
Join(parts, sep) ==
    IF parts = << >> THEN << >>
    ELSE IF Len(parts) = 1 THEN parts[1]
    ELSE parts[1] \o <<sep>> \o Join(Tail(parts), sep)

---------------------------------------------------------------------------
(* str.replace(old, new) for a three-character old and one-character new:  *)
(* left to right, non-overlapping.                                         *)

RECURSIVE Replace3(_, _, _)
Replace3(s, old, new) ==
    IF Len(s) < 3 THEN s
    ELSE IF SubSeq(s, 1, 3) = old
         THEN new \o Replace3(SubSeq(s, 4, Len(s)), old, new)
         ELSE <<s[1]>> \o Replace3(Tail(s), old, new)

\* .replace(".0,", ",").replace(".0\n", "\n") applied to the whole csv text
SanitizeNoop(text) == text
Sanitize(text) ==
    Replace3(Replace3(text, <<DOT, ZERO, COMMA>>, <<COMMA>>),
             <<DOT, ZERO, NL>>, <<NL>>)

(* DataFrame.to_csv(index=False, header=None): fields joined by ",", one   *)
(* record per line; a field holding a separator, a quote or a line feed is *)
(* quoted, its quotes doubled (csv.QUOTE_MINIMAL).  NaN is written empty.  *)
NeedsQuote(t) == \E i \in DOMAIN t : t[i] \in {COMMA, QUOTE, NL}

CsvField(t) ==
    IF t = NULL THEN EMPTY
    ELSE IF NeedsQuote(t)
         THEN <<QUOTE>>
              \o Flatten([i \in DOMAIN t |->
                             IF t[i] = QUOTE THEN <<QUOTE, QUOTE>> ELSE <<t[i]>>])
              \o <<QUOTE>>
         ELSE t

CsvLine(fields) == Join(Map(fields, CsvField), COMMA) \o <<NL>>

ToCsv(records) == Flatten(Map(records, CsvLine))

(* The Gateway's reading of the uploaded csv: records of fields.           *)
RECURSIVE ParseCsv(_, _, _, _, _)
ParseCsv(s, inq, fld, rec, out) ==
    IF s = << >> THEN out
    ELSE LET ch == Head(s) rest == Tail(s) IN
         IF inq
         THEN IF ch = QUOTE
              THEN IF rest # << >> /\ Head(rest) = QUOTE
                   THEN ParseCsv(Tail(rest), TRUE, Append(fld, QUOTE), rec, out)
                   ELSE ParseCsv(rest, FALSE, fld, rec, out)
              ELSE ParseCsv(rest, TRUE, Append(fld, ch), rec, out)
         ELSE IF ch = QUOTE THEN ParseCsv(rest, TRUE, fld, rec, out)
              ELSE IF ch = COMMA
                   THEN ParseCsv(rest, FALSE, EMPTY, Append(rec, fld), out)
              ELSE IF ch = NL
                   THEN ParseCsv(rest, FALSE, EMPTY, << >>,
                                 Append(out, Append(rec, fld)))
              ELSE ParseCsv(rest, FALSE, Append(fld, ch), rec, out)

ReadCsv(text) == ParseCsv(text, FALSE, EMPTY, << >>, << >>)

---------------------------------------------------------------------------
(* Dataframes.  A row of a table snapshot is [idx, c]: idx the row         *)
(* identifier "<rowId>_<rowVersion>" as a text, c the cells by column.  A  *)
(* row of a new dataset is [c].                                            *)

FillNa(cell, v) == IF cell = NULL THEN v ELSE cell

FillNaRow(row, v) == [row EXCEPT !.c = [col \in DOMAIN row.c |-> FillNa(row.c[col], v)]]

\* database[primary_key_cols].apply(lambda x: ' '.join(x), axis=1)
UniqueKey(row, pk) == Join([i \in DOMAIN pk |-> row.c[pk[i]]], SPACE)

Keys(df, pk) == {UniqueKey(df[i], pk) : i \in DOMAIN df}

\* the two parts of the row identifier taken the wrong way round
SplitRowIdSwapped(idx) == <<<<idx[3]>>, <<idx[1]>>>>

\* rowid.split("_")[0], rowid.split("_")[1]
SplitRowId(idx) == <<<<idx[1]>>, <<idx[3]>>>>

\* pandas "!=" on two cells
CellNe(a, b) == a # b

_get_left_diff_df(left, right, pk) ==
    LET rk == Keys(right, pk)
        Keep(r) == UniqueKey(r, pk) \notin rk
    IN Filter(left, Keep)

_get_left_union_df(left, right, pk) ==
    LET rk == Keys(right, pk)
        Keep(r) == UniqueKey(r, pk) \in rk
    IN Filter(left, Keep)

\* every row of the new dataset is appended, also those the database holds
AppendEveryRow(new, db, pk) ==
    [i \in DOMAIN new |-> [rid |-> NULL, rver |-> NULL, c |-> new[i].c]]

\* rows to append: no row identifier
_append_rows(new, db, pk) ==
    LET app == _get_left_diff_df(new, db, pk)
    IN [i \in DOMAIN app |-> [rid |-> NULL, rver |-> NULL, c |-> app[i].c]]

\* the first row of df with the key k (index.duplicated() keeps the first)
FirstWithKey(df, pk, k) ==
    df[CHOOSE i \in DOMAIN df :
          /\ UniqueKey(df[i], pk) = k
          /\ \A j \in 1..(i - 1) : UniqueKey(df[j], pk) # k]

_update_rows(new, db, cols, pk) ==
    LET updatesetdf == _get_left_union_df(new, db, pk)
        updating_databasedf == _get_left_union_df(db, new, pk)
        Aligned(i) == FirstWithKey(updatesetdf, pk,
                                   UniqueKey(updating_databasedf[i], pk))
        Different(i) == \E j \in DOMAIN cols :
                           CellNe(Aligned(i).c[cols[j]],
                                  updating_databasedf[i].c[cols[j]])
        picked == Filter([i \in DOMAIN updating_databasedf |-> i], Different)
    IN [n \in DOMAIN picked |->
           [rid |-> SplitRowId(updating_databasedf[picked[n]].idx)[1],
            rver |-> SplitRowId(updating_databasedf[picked[n]].idx)[2],
            c |-> Aligned(picked[n]).c]]

_delete_rows(new, db, pk) ==
    LET del == _get_left_diff_df(db, new, pk)
    IN [i \in DOMAIN del |-> SplitRowId(del[i].idx)]

\* str() of a double holding the integer of the decimal digits t exactly, as
\* to_csv writes it: the digits and ".0" below 10^16, the shortest exponent
\* form from 10^16 on
FloatText(t) ==
    IF Len(t) =< 16 THEN t \o <<DOT, ZERO>>
    ELSE LET last == CHOOSE k \in DOMAIN t :
                        /\ t[k] # ZERO
                        /\ \A j \in (k + 1)..Len(t) : t[j] = ZERO
         IN <<t[1]>>
            \o (IF last > 1 THEN <<DOT>> \o SubSeq(t, 2, last) ELSE << >>)
            \o <<"e+", ToString(Len(t) - 1)>>

\* "An integer column with one NA/blank value will be cast as a double": the
\* integer columns of the new dataset that hold a blank
FloatColumns(new0, intcols) ==
    {col \in intcols : \E i \in DOMAIN new0 : new0[i].c[col] = NULL}

\* the update file when the rows to delete are computed whatever to_delete is
EmittedTextDeleting(db0, new0, cols, pk, to_delete, floats) ==
    LET db == Map(db0, LAMBDA r : FillNaRow(r, EMPTY))
        new == Map(new0, LAMBDA r : FillNaRow(r, EMPTY))
        allupdates == _append_rows(new, db, pk) \o _update_rows(new, db, cols, pk)
        Line(r) == <<r.rid, r.rver>> \o [j \in DOMAIN cols |-> r.c[cols[j]]]
    IN Sanitize(ToCsv(Map(allupdates, Line)))
          \o Sanitize(ToCsv(_delete_rows(new, db, pk)))

(* updateDatabase: what is written to the update file after the header.    *)
(* cols is the column order of the database; the new dataset is            *)
(* reprojected to it; the cells of the columns in floats are doubles.      *)
EmittedTextTyped(db0, new0, cols, pk, to_delete, floats) ==
    LET db == Map(db0, LAMBDA r : FillNaRow(r, EMPTY))
        new == Map(new0, LAMBDA r : FillNaRow(r, EMPTY))
        allupdates == _append_rows(new, db, pk) \o _update_rows(new, db, cols, pk)
        to_delete_rows == IF to_delete THEN _delete_rows(new, db, pk) ELSE << >>
        Cell(r, col) == IF col \in floats /\ r.c[col] \notin {EMPTY, NULL}
                        THEN FloatText(r.c[col]) ELSE r.c[col]
        Line(r) == <<r.rid, r.rver>> \o [j \in DOMAIN cols |-> Cell(r, cols[j])]
    IN Sanitize(ToCsv(Map(allupdates, Line))) \o Sanitize(ToCsv(to_delete_rows))

(* updateDatabase on frames without double columns: what is written to     *)
(* the update file after the header                                        *)
EmittedText(db0, new0, cols, pk, to_delete) ==
    EmittedTextTyped(db0, new0, cols, pk, to_delete, {})

\* storedatabase: something was appended, updated or deleted
StoreCalled(db, new, cols, pk, to_delete) ==
    EmittedText(db, new, cols, pk, to_delete) # << >>

---------------------------------------------------------------------------
(* The Platform Gateway's table.  A table is [rows, next]: rows in row-id  *)
(* order, each [rid, rver, c], and the next free row id.                   *)

EmptyTable == [rows |-> << >>, next |-> 1]

\* tableQuery(...).asDataFrame(): the index is "<rowId>_<rowVersion>"
AsDataFrame(rows) ==
    [i \in DOMAIN rows |->
        [idx |-> <<ToString(rows[i].rid), USCORE, ToString(rows[i].rver)>>,
         c |-> rows[i].c]]

\* an empty csv field is stored as a missing value
CellsOf(rec, cols) ==
    [col \in Range(cols) |->
        LET j == CHOOSE k \in DOMAIN cols : cols[k] = col
        IN IF j + 2 > Len(rec) \/ rec[j + 2] = EMPTY THEN NULL ELSE rec[j + 2]]

\* one record of the uploaded csv: a delete (row identifier only), an
\* append (no row identifier) or an update (row identifier and cells)
ApplyRecord(t, rec, cols) ==
    IF Len(rec) = 2
    THEN [t EXCEPT !.rows = SelectSeq(t.rows, LAMBDA r : <<ToString(r.rid)>> # rec[1])]
    ELSE IF rec[1] = EMPTY
    THEN [rows |-> Append(t.rows, [rid |-> t.next, rver |-> 1, c |-> CellsOf(rec, cols)]),
          next |-> t.next + 1]
    ELSE [t EXCEPT !.rows =
             [i \in DOMAIN t.rows |->
                 IF <<ToString(t.rows[i].rid)>> = rec[1]
                 THEN [rid |-> t.rows[i].rid, rver |-> t.rows[i].rver + 1,
                       c |-> CellsOf(rec, cols)]
                 ELSE t.rows[i]]]

RECURSIVE ApplyRecords(_, _, _)
ApplyRecords(t, recs, cols) ==
    IF recs = << >> THEN t
    ELSE ApplyRecords(ApplyRecord(t, Head(recs), cols), Tail(recs), cols)

\* syn.store(synapseclient.Table(database_synid, update_all_file.name))
GatewayStore(t, text, cols) == ApplyRecords(t, ReadCsv(text), cols)

\* nothing is stored
StoreNothing(t, db, new, cols, pk, to_delete) == t

\* updateDatabase as a whole: the table after it
updateDatabase(t, db, new, cols, pk, to_delete) ==
    IF StoreCalled(db, new, cols, pk, to_delete)
    THEN GatewayStore(t, EmittedText(db, new, cols, pk, to_delete), cols)
    ELSE t

---------------------------------------------------------------------------
(* The validation pipeline: entities, the format registry, the validator.  *)

Centers == {"c1", "c2"}
IdOrder == <<"syn1", "syn2", "syn3">>
EntityIds == Range(IdOrder)
CenterOf(id) == IF id = "syn3" THEN "c2" ELSE "c1"
Users == {"u1", "u2"}
Creator(id) == IF id = "syn2" THEN "u2" ELSE "u1"
\* the user who modifies a file after its upload
Modifier(id) == IF id = "syn1" THEN "u2" ELSE "u1"
\* the contents the files of a center take
Md5sOf(id) == IF id = "syn3" THEN {<<"m2">>} ELSE {<<"m1">>, <<"m2">>}

Names == {<<"a", DOT, "csv">>, <<"b", DOT, "csv">>, <<"d", DOT, ZERO>>}
\* the names the files of the second center take
NamesOf(id) == IF id = "syn3" THEN {<<"a", DOT, "csv">>} ELSE Names
Md5s == {<<"m1">>, <<"m2">>}
Times == {<<"t1">>, <<"t2">>}

NoEntity == [id |-> "none"]
Entities ==
    [id : EntityIds, name : Names, md5 : Md5s, modifiedOn : Times,
     createdBy : Users, modifiedBy : Users]

VALIDATED == <<"VALIDATED">>
INVALID == <<"INVALID">>
OTHER_TYPE == <<"other">>

\* DUPLICATED_FILE_ERROR
DUPLICATED_FILE_ERROR ==
    <<"Duplicated filename! Files should be uploaded as new versions and the entire dataset should be uploaded", DOT>>

ERRORS_BANNER == <<"----------------ERRORS----------------", NL>>
WARNINGS_BANNER == <<"-------------WARNINGS-------------", NL>>
SUCCESS_BANNER == <<"YOUR FILE IS VALIDATED!", NL>>
FILENAME_ERROR ==
    <<"Your filename is incorrect! Please change your filename before you run the validator or specify --filetype if you are running the validator locally">>
CONTENT_ERROR == <<"csv: File must not be empty">>

StatusCols == <<"id", "md5", "status", "name", "center", "modifiedOn", "fileType">>
ErrorCols == <<"id", "center", "errors", "name", "fileType">>
IdKey == <<"id">>

\* Csv._validate_filetype: the name ends with ".csv"
NameAccepted(name) == Len(name) >= 2 /\ SubSeq(name, Len(name) - 1, Len(name)) = <<DOT, "csv">>

\* The format classes a registry can hold.  "Csv" is example_registry.csv.Csv
\* as it stands: it defines validate_filetype and no validateFilename.
\* "NamedCsv" is a subclass of it that also defines validateFilename(names)
\* as the same check of the file names.
FormatClasses == {"Csv", "NamedCsv"}

\* the format registries handed to a ValidationHelper, in dictionary order
Registries ==
    {<< >>} \cup {<<[key |-> <<"csv">>, cls |-> cls]>> : cls \in FormatClasses}

\* the registry of the pipeline runs: its format honours the call of
\* determine_filetype
format_registry == <<[key |-> <<"csv">>, cls |-> "NamedCsv"]>>

\* validator.validateFilename(filenames) of determine_filetype: the
\* attribute lookup fails on a class without the method
validateFilename(cls, names) ==
    IF cls = "Csv" THEN [raised |-> "AttributeError", filetype |-> NULL]
    ELSE IF \A i \in DOMAIN names : NameAccepted(names[i])
         THEN [raised |-> "none", filetype |-> <<"csv">>]
         ELSE [raised |-> "AssertionError", filetype |-> NULL]

\* the loop of ValidationHelper.determine_filetype over the registry: an
\* AssertionError moves on to the next format, any other exception leaves
\* the loop, the first file type found ends it
RECURSIVE DetermineLoop(_, _)
DetermineLoop(registry, names) ==
    IF registry = << >> THEN [raised |-> "none", filetype |-> NULL]
    ELSE LET r == validateFilename(Head(registry).cls, names)
         IN IF r.raised = "AssertionError"
            THEN DetermineLoop(Tail(registry), names)
            ELSE IF r.raised # "none" THEN r
            ELSE IF r.filetype # NULL THEN r
            ELSE DetermineLoop(Tail(registry), names)

\* ValidationHelper.determine_filetype: the first registered format that
\* accepts the file name(s), None when none does
determine_filetype(entities) ==
    DetermineLoop(format_registry,
                  [i \in DOMAIN entities |-> entities[i].name]).filetype

\* FileTypeFormat.validate: read the file(s), run the format's _validate;
\* the content behind md5 m1 passes, the content behind m2 does not
FormatValidate(entities) ==
    IF \A i \in DOMAIN entities : entities[i].md5 = <<"m1">>
    THEN [valid |-> TRUE, errors |-> EMPTY, warnings |-> EMPTY]
    ELSE [valid |-> FALSE, errors |-> CONTENT_ERROR, warnings |-> EMPTY]

\* the warnings section put before the errors section
WarningsFirst(errors, warnings) ==
    (IF warnings # EMPTY THEN WARNINGS_BANNER \o warnings ELSE EMPTY)
    \o (IF errors = EMPTY THEN SUCCESS_BANNER ELSE ERRORS_BANNER \o errors)

collect_errors_and_warnings(errors, warnings) ==
    (IF errors = EMPTY THEN SUCCESS_BANNER ELSE ERRORS_BANNER \o errors)
    \o (IF warnings # EMPTY THEN WARNINGS_BANNER \o warnings ELSE EMPTY)

\* ValidationHelper.__init__: the file type given, else the one determined
ValidationHelper(registry, entities, file_type) ==
    IF file_type = NULL
    THEN DetermineLoop(registry, [i \in DOMAIN entities |-> entities[i].name])
    ELSE [raised |-> "none", filetype |-> file_type]

\* ValidationHelper(...).validate_single_file() on a registry; validated
\* tells whether the format's validate was called
SingleFile(registry, entities, file_type) ==
    LET h == ValidationHelper(registry, entities, file_type)
    IN IF h.raised # "none"
       THEN [raised |-> h.raised, valid |-> FALSE, message |-> EMPTY,
             validated |-> FALSE]
       ELSE IF \A i \in DOMAIN registry : registry[i].key # h.filetype
       THEN [raised |-> "none", valid |-> FALSE,
             message |-> collect_errors_and_warnings(FILENAME_ERROR, EMPTY),
             validated |-> FALSE]
       ELSE LET r == FormatValidate(entities)
            IN [raised |-> "none", valid |-> r.valid,
                message |-> collect_errors_and_warnings(r.errors, r.warnings),
                validated |-> TRUE]

\* validate_single_file of the helper the pipeline builds for a unit
validate_single_file(entities, file_type) ==
    LET r == SingleFile(format_registry, entities, file_type)
    IN [valid |-> r.valid, message |-> r.message]

---------------------------------------------------------------------------
(* Status cache and reuse.                                                 *)

WithId(df, id) == SelectSeq(df, LAMBDA r : r.c.id = <<id>>)

\* every entity is taken to need validation
CheckEntityAlways(acc, ent, statusdf, errordf) ==
    [acc EXCEPT !.to_validate = TRUE]

\* one pass of the loop of check_existing_file_status over an entity
CheckEntity(acc, ent, statusdf, errordf) ==
    LET current_status == WithId(statusdf, ent.id)
        current_error == WithId(errordf, ent.id)
    IN IF current_status = << >>
       THEN [acc EXCEPT !.to_validate = TRUE]
       ELSE LET st == current_status[1].c.status
                a1 == [acc EXCEPT !.status_list = Append(@, st)]
                a2 == IF current_error = << >>
                      THEN [a1 EXCEPT !.to_validate = (st = INVALID)]
                      ELSE [a1 EXCEPT !.error_list =
                                          Append(@, current_error[1].c.errors)]
            IN IF current_status[1].c.md5 # ent.md5
                  \/ current_status[1].c.name # ent.name
               THEN [a2 EXCEPT !.to_validate = TRUE]
               ELSE a2

RECURSIVE CheckLoop(_, _, _, _)
CheckLoop(acc, entities, statusdf, errordf) ==
    IF entities = << >> THEN acc
    ELSE CheckLoop(CheckEntity(acc, Head(entities), statusdf, errordf),
                   Tail(entities), statusdf, errordf)

check_existing_file_status(statusdf, errordf, entities) ==
    CheckLoop([status_list |-> << >>, error_list |-> << >>, to_validate |-> FALSE],
              entities, statusdf, errordf)

StatusRow(ent, status, filetype, center) ==
    [ent |-> ent,
     c |-> [id |-> <<ent.id>>, md5 |-> ent.md5, status |-> status,
            name |-> ent.name, center |-> <<center>>,
            modifiedOn |-> ent.modifiedOn, fileType |-> filetype]]

ErrorRow(ent, errors, filetype, center) ==
    [ent |-> ent,
     c |-> [id |-> <<ent.id>>, center |-> <<center>>, errors |-> errors,
            name |-> ent.name, fileType |-> filetype]]

Min(a, b) == IF a < b THEN a ELSE b

\* zip(entities, values)
Zip(entities, values) ==
    [i \in 1..Min(Len(entities), Len(values)) |-> <<entities[i], values[i]>>]

validatefile(entities, statusdf, errordf, center) ==
    LET file_users == {entities[1].modifiedBy, entities[1].createdBy}
        filenames == Map(entities, LAMBDA e : e.name)
        chk == check_existing_file_status(statusdf, errordf, entities)
        filetype == determine_filetype(entities)
        res == validate_single_file(entities, filetype)
    IN IF chk.to_validate
       THEN [status |-> Map(entities, LAMBDA e :
                               StatusRow(e, IF res.valid THEN VALIDATED ELSE INVALID,
                                         filetype, center)),
             errors |-> IF res.valid THEN << >>
                        ELSE Map(entities, LAMBDA e :
                                    ErrorRow(e, res.message, filetype, center)),
             messages |-> IF res.valid THEN << >>
                          ELSE <<[filenames |-> filenames, messages |-> res.message,
                                  users |-> file_users]>>,
             called |-> {entities[i].id : i \in DOMAIN entities}]
       ELSE [status |-> Map(Zip(entities, chk.status_list), LAMBDA p :
                               StatusRow(p[1], p[2], filetype, center)),
             errors |-> Map(Zip(entities, chk.error_list), LAMBDA p :
                               ErrorRow(p[1], p[2], filetype, center)),
             messages |-> << >>,
             called |-> {}]

\* the loop of validation() over the submission units
RECURSIVE ValidateUnits(_, _, _, _, _)
ValidateUnits(acc, units, statusdf, errordf, center) ==
    IF units = << >> THEN acc
    ELSE LET r == validatefile(Head(units), statusdf, errordf, center)
         IN ValidateUnits([status |-> acc.status \o r.status,
                           errors |-> acc.errors \o r.errors,
                           messages |-> acc.messages \o r.messages,
                           called |-> acc.called \cup r.called],
                          Tail(units), statusdf, errordf, center)

---------------------------------------------------------------------------
(* Duplicate-filename detection and the final status / error frames.       *)

\* drop_duplicates("id"): the first row of every id
DropDuplicateIds(df) ==
    LET idx == SelectSeq([i \in DOMAIN df |-> i],
                         LAMBDA i : \A j \in 1..(i - 1) : df[j].c.id # df[i].c.id)
    IN [n \in DOMAIN idx |-> df[idx[n]]]

\* the same with keep="first": only the later rows of a name are marked
NameDuplicatedKeepFirst(statusdf, i) ==
    \E j \in 1..(i - 1) : statusdf[j].c.name = statusdf[i].c.name

\* Series.duplicated(keep=False) marks every row whose name occurs on more
\* than one row
NameDuplicated(statusdf, i) ==
    \E j \in DOMAIN statusdf : j # i /\ statusdf[j].c.name = statusdf[i].c.name

get_duplicated_files(statusdf) ==
    LET marked == SelectSeq([i \in DOMAIN statusdf |-> i],
                            LAMBDA i : NameDuplicated(statusdf, i))
        dups == DropDuplicateIds([n \in DOMAIN marked |-> statusdf[marked[n]]])
    IN Map(dups, LAMBDA r : ErrorRow(r.ent, DUPLICATED_FILE_ERROR, r.c.fileType,
                                     r.c.center[1]))

IdsOf(df) == {df[i].c.id : i \in DOMAIN df}

\* no old duplicate error is taken for fixed
RemoveIdsNone(errordf, duplicated_filesdf) == {}

\* the ids whose recorded error is the duplicate-filename error and that are
\* no longer duplicated
RemoveIds(errordf, duplicated_filesdf) ==
    LET dup_ids == {errordf[i].c.id : i \in {j \in DOMAIN errordf :
                                       errordf[j].c.errors = DUPLICATED_FILE_ERROR}}
    IN dup_ids \ IdsOf(duplicated_filesdf)

_update_tables_content(statusdf0, errordf0) ==
    LET duplicated_filesdf == get_duplicated_files(statusdf0)
        dupids == IdsOf(duplicated_filesdf)
        statusdf1 == Map(statusdf0, LAMBDA r :
                         IF r.c.id \in dupids THEN [r EXCEPT !.c.status = INVALID] ELSE r)
        errordf1 == Map(errordf0, LAMBDA r :
                        IF r.c.id \in dupids
                        THEN [r EXCEPT !.c.errors = DUPLICATED_FILE_ERROR] ELSE r)
        remove_ids == RemoveIds(errordf1, duplicated_filesdf)
        errordf2 == SelectSeq(errordf1, LAMBDA r : r.c.id \notin remove_ids)
        statusdf2 == SelectSeq(statusdf1, LAMBDA r : r.c.id \notin remove_ids)
        errordf3 == DropDuplicateIds(errordf2 \o duplicated_filesdf)
        invalid_ids == {statusdf2[i].c.id : i \in {j \in DOMAIN statusdf2 :
                                             statusdf2[j].c.status = INVALID}}
        errordf4 == SelectSeq(errordf3, LAMBDA r : r.c.id \in invalid_ids)
        Other(r) == [r EXCEPT !.c.fileType = FillNa(@, OTHER_TYPE)]
    IN [validation_statusdf |-> Map(statusdf2, Other),
        error_trackingdf |-> Map(errordf4, Other),
        duplicated_filesdf |-> duplicated_filesdf]

\* user_message_dict after the validation loop and append_duplication_errors:
\* for every user the list of {filenames, messages} to mail
UserMessages(messages, duplicated_filesdf) ==
    LET dupmsg == IF duplicated_filesdf = << >> THEN << >>
                  ELSE <<[filenames |-> Map(duplicated_filesdf, LAMBDA r : r.ent.name),
                          messages |-> DUPLICATED_FILE_ERROR,
                          users |-> UNION {{duplicated_filesdf[i].ent.modifiedBy,
                                            duplicated_filesdf[i].ent.createdBy} :
                                           i \in DOMAIN duplicated_filesdf}]>>
        all == messages \o dupmsg
    IN [u \in Users |->
          Map(SelectSeq(all, LAMBDA m : u \in m.users),
              LAMBDA m : [filenames |-> m.filenames, messages |-> m.messages])]

---------------------------------------------------------------------------
(* Bounds and input domains of the reconciler's specification.             *)

MaxExisting == 2
MaxDesired == 2

RCols == <<"a", "b", "v">>
RPks == {<<"a">>, <<"a", "b">>}
RCells ==
    [a |-> {<<"x">>, <<"x", SPACE, "y">>},
     b |-> {<<"z">>, <<"y", SPACE, "z">>},
     v |-> {<<"p">>, <<"q", DOT, ZERO>>, NULL}]
RRows == [a : RCells.a, b : RCells.b, v : RCells.v]

SeqsUpTo(S, n) == UNION {[1..k -> S] : k \in 0..n}

VARIABLES recon, container, statusTable, errorTable, run, runs, edits, changed,
          call

vars == <<recon, container, statusTable, errorTable, run, runs, edits, changed,
         call>>
pipeVars == <<container, statusTable, errorTable, run, runs, edits, changed,
             call>>

\* no single call of a library function is under way
NoCall == [fn |-> "none", phase |-> "off", args |-> << >>, result |-> << >>]

\* a table the Gateway can hold: row ids in order, versions 1
TableOf(cs) ==
    [rows |-> [i \in DOMAIN cs |-> [rid |-> i, rver |-> 1, c |-> cs[i]]],
     next |-> Len(cs) + 1]

IdleRun ==
    [pc |-> "idle", only_validate |-> FALSE, fresh |-> FALSE, files |-> << >>,
     qStatus |-> << >>, qError |-> << >>, newStatus |-> << >>, newError |-> << >>,
     mails |-> [u \in Users |-> << >>], sent |-> {}, called |-> {},
     emitE |-> << >>, emitS |-> << >>, processed |-> {}]

PipeIdle ==
    /\ container = [id \in EntityIds |-> NoEntity]
    /\ statusTable = EmptyTable
    /\ errorTable = EmptyTable
    /\ run = [c \in Centers |-> IdleRun]
    /\ runs = 0
    /\ edits = 0
    /\ changed = [c \in Centers |-> TRUE]

ReconInit ==
    /\ PipeIdle
    /\ call = NoCall
    /\ \E ex \in SeqsUpTo(RRows, MaxExisting), de \in SeqsUpTo(RRows, MaxDesired),
       pk \in RPks, del \in BOOLEAN :
        recon = [phase |-> "start", table |-> TableOf(ex),
                 new |-> [i \in DOMAIN de |-> [c |-> de[i]]],
                 pk |-> pk, to_delete |-> del,
                 emitted |-> << >>, calls |-> 0, before |-> TableOf(ex)]

\* one call of updateDatabase on the current content of the table; before
\* keeps the table the call has queried
Reconcile ==
    /\ recon.phase \in {"start", "once"}
    /\ LET db == AsDataFrame(recon.table.rows)
           text == EmittedText(db, recon.new, RCols, recon.pk, recon.to_delete)
       IN recon' = [recon EXCEPT
                       !.phase = IF recon.phase = "start" THEN "once" ELSE "twice",
                       !.table = updateDatabase(recon.table, db, recon.new, RCols,
                                                recon.pk, recon.to_delete),
                       !.emitted = text,
                       !.before = recon.table,
                       !.calls = IF text # << >> THEN @ + 1 ELSE @]
    /\ UNCHANGED pipeVars

ReconNext == Reconcile

ReconSpec == ReconInit /\ [][ReconNext]_vars

\* the same reconciler on tables of few distinct rows: two values of the key
\* column a, one of b, a value of v that may be blank
KRows == [a : {<<"x">>, <<"y">>}, b : {<<"z">>}, v : {<<"p">>, NULL}]

KeyedInit ==
    /\ PipeIdle
    /\ call = NoCall
    /\ \E ex \in SeqsUpTo(KRows, MaxExisting), de \in SeqsUpTo(KRows, MaxDesired),
       pk \in RPks, del \in BOOLEAN :
        recon = [phase |-> "start", table |-> TableOf(ex),
                 new |-> [i \in DOMAIN de |-> [c |-> de[i]]],
                 pk |-> pk, to_delete |-> del,
                 emitted |-> << >>, calls |-> 0, before |-> TableOf(ex)]

KeyedSpec == KeyedInit /\ [][ReconNext]_vars

---------------------------------------------------------------------------
(* The pipeline as a state machine: the centers' input containers, the     *)
(* status and error tables, and each center's run (one worker a center).   *)

MaxRuns == 2
MaxEdits == 1

ReconIdle ==
    recon = [phase |-> "off", table |-> EmptyTable, new |-> << >>, pk |-> IdKey,
             to_delete |-> FALSE, emitted |-> << >>, calls |-> 0,
             before |-> EmptyTable]

Init ==
    /\ ReconIdle
    /\ container \in [EntityIds -> Entities \cup {NoEntity}]
    /\ \A id \in EntityIds :
          container[id] # NoEntity =>
             /\ container[id].id = id
             /\ container[id].name \in NamesOf(id)
             /\ container[id].md5 \in Md5sOf(id)
             /\ container[id].modifiedOn = <<"t1">>
             /\ container[id].createdBy = Creator(id)
             /\ container[id].modifiedBy = Creator(id)
    /\ statusTable = EmptyTable
    /\ errorTable = EmptyTable
    /\ run = [c \in Centers |-> IdleRun]
    /\ runs = 0
    /\ edits = 0
    /\ changed = [c \in Centers |-> TRUE]
    /\ call = NoCall

OtherTime(t) == IF t = <<"t1">> THEN <<"t2">> ELSE <<"t1">>

\* the environment: a center changes its input container between runs
Edit(id, ent) ==
    /\ edits < MaxEdits
    /\ run[CenterOf(id)].pc = "idle"
    /\ container' = [container EXCEPT ![id] = ent]
    /\ edits' = edits + 1
    /\ changed' = [changed EXCEPT ![CenterOf(id)] = TRUE]
    /\ UNCHANGED <<call, recon, statusTable, errorTable, run, runs>>

Upload(id) ==
    /\ container[id] = NoEntity
    /\ \E n \in NamesOf(id), m \in Md5sOf(id) :
          Edit(id, [id |-> id, name |-> n, md5 |-> m, modifiedOn |-> <<"t1">>,
                    createdBy |-> Creator(id), modifiedBy |-> Creator(id)])

Rename(id) ==
    /\ container[id] # NoEntity
    /\ \E n \in NamesOf(id) \ {container[id].name} :
          Edit(id, [container[id] EXCEPT !.name = n, !.modifiedBy = Modifier(id),
                                         !.modifiedOn = OtherTime(@)])

NewVersion(id) ==
    /\ container[id] # NoEntity
    /\ \E m \in Md5sOf(id) \ {container[id].md5} :
          Edit(id, [container[id] EXCEPT !.md5 = m, !.modifiedBy = Modifier(id),
                                         !.modifiedOn = OtherTime(@)])

Remove(id) ==
    /\ container[id] # NoEntity
    /\ Edit(id, NoEntity)

\* the entities of a center's container, in walk order
InputEntities(c) ==
    LET ids == SelectSeq(IdOrder, LAMBDA id : CenterOf(id) = c /\ container[id] # NoEntity)
    IN Map(ids, LAMBDA id : container[id])

\* get_center_input_files: one submission unit for every entity
get_center_input_files(c) == Map(InputEntities(c), LAMBDA e : <<e>>)

\* center_input_to_database up to "if center_files:"
Enumerate(c) ==
    /\ run[c].pc = "idle"
    /\ runs < MaxRuns
    /\ runs' = runs + 1
    /\ LET center_files == get_center_input_files(c)
       IN run' = [run EXCEPT ![c] =
                     [IdleRun EXCEPT !.pc = IF center_files = << >> THEN "nofiles"
                                            ELSE "enumerated",
                                     !.fresh = ~changed[c],
                                     !.files = center_files]]
    /\ changed' = [changed EXCEPT ![c] = FALSE]
    /\ UNCHANGED <<call, recon, container, statusTable, errorTable, edits>>

\* the query without its center filter
QueryAllCenters(t, c) ==
    AsDataFrame(SelectSeq(t.rows, LAMBDA r : r.c.fileType # NULL))

\* syn.tableQuery("... where center = '<c>' and fileType <> ''")
CenterQuery(t, c) ==
    AsDataFrame(SelectSeq(t.rows, LAMBDA r : r.c.center = <<c>> /\ r.c.fileType # NULL))

Query(c) ==
    /\ run[c].pc = "enumerated"
    /\ run' = [run EXCEPT ![c].pc = "queried",
                          ![c].qStatus = CenterQuery(statusTable, c),
                          ![c].qError = CenterQuery(errorTable, c)]
    /\ UNCHANGED <<call, recon, container, statusTable, errorTable, runs, edits, changed>>

\* validation(): the loop over the units, the two frames, the duplicates
ValidateAll(c) ==
    /\ run[c].pc = "queried"
    /\ LET r == ValidateUnits([status |-> << >>, errors |-> << >>,
                               messages |-> << >>, called |-> {}],
                              run[c].files, run[c].qStatus, run[c].qError, c)
           t == _update_tables_content(r.status, r.errors)
       IN run' = [run EXCEPT ![c].pc = "validated",
                             ![c].newStatus = t.validation_statusdf,
                             ![c].newError = t.error_trackingdf,
                             ![c].called = r.called,
                             ![c].mails = UserMessages(r.messages, t.duplicated_filesdf)]
    /\ UNCHANGED <<call, recon, container, statusTable, errorTable, runs, edits, changed>>

\* _send_validation_error_email for every user of user_message_dict
Notify(c) ==
    /\ run[c].pc = "validated"
    /\ run' = [run EXCEPT ![c].pc = "notified",
                          ![c].sent = {[user |-> u, body |-> run[c].mails[u]] :
                                       u \in {v \in Users : run[c].mails[v] # << >>}}]
    /\ UNCHANGED <<call, recon, container, statusTable, errorTable, runs, edits, changed>>

\* update_status_and_error_tables, first call: the error table
StoreErrors(c) ==
    /\ run[c].pc = "notified"
    /\ run' = [run EXCEPT ![c].pc = "errorsStored",
                          ![c].emitE = EmittedText(run[c].qError, run[c].newError,
                                                   ErrorCols, IdKey, TRUE)]
    /\ errorTable' = updateDatabase(errorTable, run[c].qError, run[c].newError,
                                    ErrorCols, IdKey, TRUE)
    /\ UNCHANGED <<call, recon, container, statusTable, runs, edits, changed>>

\* update_status_and_error_tables, second call: the status table
StoreStatus(c) ==
    /\ run[c].pc = "errorsStored"
    /\ run' = [run EXCEPT ![c].pc = "statusStored",
                          ![c].emitS = EmittedText(run[c].qStatus, run[c].newStatus,
                                                   StatusCols, IdKey, TRUE)]
    /\ statusTable' = updateDatabase(statusTable, run[c].qStatus, run[c].newStatus,
                                     StatusCols, IdKey, TRUE)
    /\ UNCHANGED <<call, recon, container, errorTable, runs, edits, changed>>

\* every file of the status frame is taken for valid
EveryFile(c) == run[c].newStatus

\* valid_filesdf = validation_statusdf.query('status == "VALIDATED"')
ValidFiles(c) == SelectSeq(run[c].newStatus, LAMBDA r : r.c.status = VALIDATED)

\* only the files validated in this run are processed
ProcessFreshOnly(c) ==
    /\ run[c].pc = "statusStored"
    /\ ValidFiles(c) # << >>
    /\ run' = [run EXCEPT ![c].pc = "processed",
                          ![c].processed = IdsOf(ValidFiles(c))
                                           \cap {<<id>> : id \in run[c].called}]
    /\ UNCHANGED <<call, recon, container, statusTable, errorTable, runs, edits, changed>>

\* processfiles: the format's process for every valid file.  only_validate
\* is an argument of the run that nothing reads before this point: the run
\* takes ProcessFiles when it is false and there are valid files, and
\* SkipProcess when it is true or no file is valid.
ProcessFiles(c) ==
    /\ run[c].pc = "statusStored"
    /\ ValidFiles(c) # << >>
    /\ run' = [run EXCEPT ![c].pc = "processed",
                          ![c].processed = IdsOf(ValidFiles(c))]
    /\ UNCHANGED <<call, recon, container, statusTable, errorTable, runs, edits, changed>>

SkipProcess(c) ==
    /\ run[c].pc = "statusStored"
    /\ run' = [run EXCEPT ![c].pc = "processed", ![c].only_validate = (ValidFiles(c) # << >>)]
    /\ UNCHANGED <<call, recon, container, statusTable, errorTable, runs, edits, changed>>

\* the log file is stored and the run returns; a run over an empty
\* container has returned before
Return(c) ==
    /\ run[c].pc \in {"processed", "nofiles"}
    /\ run' = [run EXCEPT ![c] = IdleRun]
    /\ UNCHANGED <<call, recon, container, statusTable, errorTable, runs, edits, changed>>

Next ==
    \/ \E id \in EntityIds : Upload(id) \/ Rename(id) \/ NewVersion(id) \/ Remove(id)
    \/ \E c \in Centers :
          \/ Enumerate(c) \/ Query(c) \/ ValidateAll(c) \/ Notify(c)
          \/ StoreErrors(c) \/ StoreStatus(c)
          \/ ProcessFiles(c) \/ SkipProcess(c) \/ Return(c)

Spec == Init /\ [][Next]_vars

---------------------------------------------------------------------------
(* validation() called on one center with submission units of one or two   *)
(* entities (a format of two physical files): the caller chooses how the   *)
(* entities of the container are grouped.                                  *)

UnitCenters == {"c1"}
UnitIds == {id \in EntityIds : CenterOf(id) \in UnitCenters}

\* the ways to group the entities into units of one or two, in walk order
Groupings(ents) ==
    {Map(ents, LAMBDA e : <<e>>)}
    \cup (IF Len(ents) = 2 THEN {<<ents>>} ELSE {})

UnitsInit ==
    /\ Init
    /\ \A id \in EntityIds \ UnitIds : container[id] = NoEntity

EnumerateUnits(c) ==
    /\ run[c].pc = "idle"
    /\ runs < MaxRuns
    /\ runs' = runs + 1
    /\ \E center_files \in Groupings(InputEntities(c)) :
          run' = [run EXCEPT ![c] =
                     [IdleRun EXCEPT !.pc = IF center_files = << >> THEN "nofiles"
                                            ELSE "enumerated",
                                     !.fresh = ~changed[c],
                                     !.files = center_files]]
    /\ changed' = [changed EXCEPT ![c] = FALSE]
    /\ UNCHANGED <<call, recon, container, statusTable, errorTable, edits>>

UnitsNext ==
    \/ \E id \in UnitIds : Upload(id) \/ Rename(id) \/ NewVersion(id) \/ Remove(id)
    \/ \E c \in UnitCenters :
          \/ EnumerateUnits(c) \/ Query(c) \/ ValidateAll(c) \/ Notify(c)
          \/ StoreErrors(c) \/ StoreStatus(c)
          \/ ProcessFiles(c) \/ SkipProcess(c) \/ Return(c)

UnitsSpec == UnitsInit /\ [][UnitsNext]_vars

---------------------------------------------------------------------------
(* Runs of one center that a failing Gateway call, or a cancellation, ends *)
(* early.  No call of the run is in a try block and none is retried: the   *)
(* exception leaves validation() and center_input_to_database(), and what  *)
(* the run has stored so far stays stored.                                 *)

\* a Gateway call of the run raises (or the run is cancelled there): the
\* table queries, the store of the error table, the store of the status
\* table, the stores of processfiles.  call keeps the last call of
\* center_input_to_database that ended this way and the step it was at.
GatewayFails(c) ==
    /\ \/ run[c].pc \in {"enumerated", "notified", "errorsStored"}
       \/ run[c].pc = "statusStored" /\ ValidFiles(c) # << >>
    /\ run' = [run EXCEPT ![c].pc = "failed"]
    /\ call' = [fn |-> "center_input_to_database", phase |-> "raised",
                args |-> [center |-> c, at |-> run[c].pc, file |-> "none"],
                result |-> << >>]
    /\ UNCHANGED <<recon, container, statusTable, errorTable, runs, edits, changed>>

\* The handling of one file raises.  In the loop of validation() the
\* validator of a unit raises (FileTypeFormat.validate catches a failing
\* read only): nothing of the run is recorded.  In the loop of processfiles
\* the process of the k-th valid file raises: the files before it have been
\* processed, those after it are not.
FileFails(c) ==
    /\ \/ /\ run[c].pc = "queried"
          /\ \E e \in Range(Flatten(run[c].files)) :
                /\ e.id \in
                      ValidateUnits([status |-> << >>, errors |-> << >>,
                                     messages |-> << >>, called |-> {}],
                                    run[c].files, run[c].qStatus,
                                    run[c].qError, c).called
                /\ call' = [fn |-> "center_input_to_database", phase |-> "raised",
                            args |-> [center |-> c, at |-> "validate",
                                      file |-> e.id],
                            result |-> << >>]
                /\ run' = [run EXCEPT ![c].pc = "failed"]
       \/ /\ run[c].pc = "statusStored"
          /\ \E k \in DOMAIN ValidFiles(c) :
                /\ call' = [fn |-> "center_input_to_database", phase |-> "raised",
                            args |-> [center |-> c, at |-> "process",
                                      file |-> ValidFiles(c)[k].c.id[1]],
                            result |-> << >>]
                /\ run' = [run EXCEPT
                              ![c].pc = "failed",
                              ![c].processed =
                                 IdsOf(SubSeq(ValidFiles(c), 1, k - 1))]
    /\ UNCHANGED <<recon, container, statusTable, errorTable, runs, edits, changed>>

\* the exception has ended the program; a later invocation starts afresh
Abort(c) ==
    /\ run[c].pc = "failed"
    /\ run' = [run EXCEPT ![c] = IdleRun]
    /\ UNCHANGED <<call, recon, container, statusTable, errorTable, runs, edits, changed>>

FailNext ==
    \/ \E id \in UnitIds : Upload(id) \/ Rename(id) \/ NewVersion(id) \/ Remove(id)
    \/ \E c \in UnitCenters :
          \/ Enumerate(c) \/ Query(c) \/ ValidateAll(c) \/ Notify(c)
          \/ StoreErrors(c) \/ StoreStatus(c)
          \/ ProcessFiles(c) \/ SkipProcess(c) \/ Return(c)
          \/ GatewayFails(c) \/ FileFails(c) \/ Abort(c)

FailSpec == UnitsInit /\ [][FailNext]_vars

---------------------------------------------------------------------------
(* One invocation of the program over several centers: the loop of         *)
(* processing over groupby_values runs the centers one after the other,    *)
(* with no try block around the run of a center.                           *)

\* groupby_values, in the order of the loop
CenterOrder == <<"c1", "c2">>

\* the loop calls the workflow of its next center: the runs of the centers
\* before it have returned
LoopStart(c) ==
    /\ runs < Len(CenterOrder)
    /\ c = CenterOrder[runs + 1]
    /\ \A d \in Centers : run[d].pc = "idle"
    /\ call = NoCall
    /\ Enumerate(c)

\* the run of a center has returned: the loop goes on
LoopReturn(c) ==
    /\ call = NoCall
    /\ Return(c)

\* the exception of the run of a center leaves the loop and processing
LoopRaises ==
    /\ call.fn = "center_input_to_database"
    /\ call.phase = "raised"
    /\ call' = [call EXCEPT !.fn = "processing"]
    /\ UNCHANGED <<recon, container, statusTable, errorTable, run, runs, edits,
                   changed>>

LoopNext ==
    \/ \E c \in Centers :
          \/ LoopStart(c) \/ Query(c) \/ ValidateAll(c) \/ Notify(c)
          \/ StoreErrors(c) \/ StoreStatus(c)
          \/ ProcessFiles(c) \/ SkipProcess(c) \/ LoopReturn(c)
          \/ GatewayFails(c) \/ FileFails(c)
    \/ LoopRaises

LoopSpec == Init /\ [][LoopNext]_vars

---------------------------------------------------------------------------
(* Single calls of the library functions, on arguments drawn from bounded  *)
(* sets: the call is pending, then done with its result.                   *)

MaxReportLen == 2

\* the error and warning strings of a call
ReportTexts == SeqsUpTo({"e", "w", NL}, MaxReportLen)

\* the file type a caller gives: none, a key of the registry, another one
GivenFileTypes == {NULL, <<"csv">>, <<"vcf">>}

PendingCall(fn, args) ==
    [fn |-> fn, phase |-> "pending", args |-> args, result |-> << >>]

CallInputs ==
    {PendingCall("collect_errors_and_warnings", [errors |-> e, warnings |-> w]) :
        e \in ReportTexts, w \in ReportTexts}
    \cup
    {PendingCall("validate_single_file",
                 [registry |-> reg,
                  entity |-> [id |-> "syn1", name |-> n, md5 |-> m,
                              modifiedOn |-> <<"t1">>,
                              createdBy |-> Creator("syn1"),
                              modifiedBy |-> Creator("syn1")],
                  file_type |-> ft]) :
        reg \in Registries, n \in Names, m \in Md5s, ft \in GivenFileTypes}

MaxIntOld == 1
MaxIntNew == 2

\* the integers of an integer column, by their decimal digits: 7, 10, 10^16
IntValues ==
    {<<"7">>, <<"1", ZERO>>, <<"1">> \o [i \in 1..16 |-> ZERO]}

\* rows of a table with a text key k and an integer column n that may be blank
IntRows == [k : {<<"x">>, <<"y">>}, n : IntValues \cup {NULL}]

\* the integer column last or not last in the column order
IntColOrders == {<<"k", "n">>, <<"n", "k">>}

IntCallInputs ==
    {PendingCall("updateDatabase",
                 [table |-> TableOf(ex),
                  new |-> [i \in DOMAIN de |-> [c |-> de[i]]],
                  cols |-> cols]) :
        ex \in SeqsUpTo(IntRows, MaxIntOld), de \in SeqsUpTo(IntRows, MaxIntNew),
        cols \in IntColOrders}

CallInit ==
    /\ PipeIdle
    /\ ReconIdle
    /\ call \in CallInputs \cup IntCallInputs

CallCollect ==
    /\ call.fn = "collect_errors_and_warnings"
    /\ call.phase = "pending"
    /\ call' = [call EXCEPT
                   !.phase = "done",
                   !.result = collect_errors_and_warnings(call.args.errors,
                                                          call.args.warnings)]
    /\ UNCHANGED <<recon, container, statusTable, errorTable, run, runs, edits,
                   changed>>

CallSingleFile ==
    /\ call.fn = "validate_single_file"
    /\ call.phase = "pending"
    /\ call' = [call EXCEPT
                   !.phase = "done",
                   !.result = SingleFile(call.args.registry, <<call.args.entity>>,
                                         call.args.file_type)]
    /\ UNCHANGED <<recon, container, statusTable, errorTable, run, runs, edits,
                   changed>>

\* updateDatabase(syn, database, new_dataset, ..., ["k"], to_delete=True) on a
\* table with an integer column: the text written to the update file
CallUpdateDatabase ==
    /\ call.fn = "updateDatabase"
    /\ call.phase = "pending"
    /\ call' = [call EXCEPT
                   !.phase = "done",
                   !.result = EmittedTextTyped(AsDataFrame(call.args.table.rows),
                                               call.args.new, call.args.cols,
                                               <<"k">>, TRUE,
                                               FloatColumns(call.args.new, {"n"}))]
    /\ UNCHANGED <<recon, container, statusTable, errorTable, run, runs, edits,
                   changed>>

CallNext ==
    \/ CallCollect
    \/ CallSingleFile
    \/ CallUpdateDatabase

CallSpec == CallInit /\ [][CallNext]_vars

---------------------------------------------------------------------------
(* updateDatabase on a new dataset whose columns are not the columns of    *)
(* the table.                                                              *)

MaxColOld == 1
MaxColNew == 2

\* the columns of the table, in its order, and its primary key
TCols == <<"k", "v">>
TKey == <<"k">>

\* the column sets a new dataset comes with: the table's, one without the
\* column v, one with a further column w, one with w in the place of v
NewColSets == {{"k", "v"}, {"k"}, {"k", "v", "w"}, {"k", "w"}}

ColCells(col) ==
    IF col = "k" THEN {<<"x">>, <<"y">>}
    ELSE IF col = "v" THEN {<<"p">>, <<"q">>}
    ELSE {<<"r">>}

\* the rows of a frame with the columns cs
RowsOver(cs) == {r \in [cs -> UNION {ColCells(col) : col \in cs}] :
                    \A col \in cs : r[col] \in ColCells(col)}

\* new_dataset[orig_database_cols]: a KeyError when a column of the table is
\* not in the new dataset, else the rows with the table's columns only
Reprojected(new, newcols, cols) ==
    IF Range(cols) \subseteq newcols
    THEN [raised |-> "none",
          frame |-> [i \in DOMAIN new |->
                        [c |-> [col \in Range(cols) |-> new[i].c[col]]]]]
    ELSE [raised |-> "KeyError", frame |-> << >>]

\* updateDatabase given the columns of the new dataset: the exception it
\* raises, if any, and the text written to the update file
updateDatabaseOver(db, new, newcols, cols, pk, to_delete) ==
    LET re == Reprojected(new, newcols, cols)
    IN IF re.raised # "none"
       THEN [raised |-> re.raised, emitted |-> << >>]
       ELSE [raised |-> "none",
             emitted |-> EmittedText(db, re.frame, cols, pk, to_delete)]

ColumnsInputs ==
    UNION {{PendingCall("updateDatabase",
                        [table |-> TableOf(ex),
                         new |-> [i \in DOMAIN de |-> [c |-> de[i]]],
                         newcols |-> cs, to_delete |-> del]) :
               ex \in SeqsUpTo(RowsOver(Range(TCols)), MaxColOld),
               de \in SeqsUpTo(RowsOver(cs), MaxColNew),
               del \in BOOLEAN} :
           cs \in NewColSets}

ColumnsInit ==
    /\ PipeIdle
    /\ ReconIdle
    /\ call \in ColumnsInputs

ColumnsUpdateDatabase ==
    /\ call.fn = "updateDatabase"
    /\ call.phase = "pending"
    /\ call' = [call EXCEPT
                   !.phase = "done",
                   !.result = updateDatabaseOver(AsDataFrame(call.args.table.rows),
                                                 call.args.new, call.args.newcols,
                                                 TCols, TKey, call.args.to_delete)]
    /\ UNCHANGED <<recon, container, statusTable, errorTable, run, runs, edits,
                   changed>>

ColumnsNext == ColumnsUpdateDatabase

ColumnsSpec == ColumnsInit /\ [][ColumnsNext]_vars

---------------------------------------------------------------------------
(* FileTypeFormat.validate on files whose read succeeds or raises.         *)

MaxPaths == 2

BSLASH == "\\"
APOS == "'"

\* file paths: a plain one, one with a backslash, one with an apostrophe, one
\* with both kinds of quotes
FilePaths ==
    {<<"/", "a">>, <<"d", BSLASH, "a">>, <<"it", APOS, "s">>, <<"q", APOS, QUOTE>>}

\* str(e) of the exception that read_file raises
ReadErrors == {<<"boom">>, EMPTY, <<"no", NL, "file">>}

\* read_file returns, or raises an exception with a message
ReadOutcomes ==
    {[raises |-> FALSE, msg |-> EMPTY]} \cup [raises : {TRUE}, msg : ReadErrors]

Has(t, ch) == \E i \in DOMAIN t : t[i] = ch

\* repr() of a str: in apostrophes, in double quotes when the text has an
\* apostrophe and no double quote; the backslash is doubled, and the
\* enclosing quote is escaped when the text has it
PyRepr(t) ==
    LET q == IF Has(t, APOS) /\ ~Has(t, QUOTE) THEN QUOTE ELSE APOS
        Esc(ch) == IF ch = BSLASH THEN <<BSLASH, BSLASH>>
                   ELSE IF ch = q THEN <<BSLASH, ch>>
                   ELSE <<ch>>
    IN <<q>> \o Flatten([i \in DOMAIN t |-> Esc(t[i])]) \o <<q>>

\* str() of a list of str, as an f-string formats it
PyListRepr(l) ==
    <<"[">> \o Flatten([i \in DOMAIN l |->
                           (IF i > 1 THEN <<COMMA, SPACE>> ELSE << >>) \o PyRepr(l[i])])
            \o <<"]">>

\* validate without the try block around read_file
validateUncaught(filePathList, missing, read, verdict) ==
    IF missing \/ read.raises
    THEN [raised |-> IF missing THEN "ValueError" ELSE "Exception",
          read_called |-> ~missing, validate_called |-> FALSE,
          valid |-> FALSE, errors |-> EMPTY, warnings |-> EMPTY]
    ELSE [raised |-> "none", read_called |-> TRUE, validate_called |-> TRUE,
          valid |-> verdict.errors = EMPTY,
          errors |-> verdict.errors, warnings |-> verdict.warnings]

\* FileTypeFormat.validate(filePathList, **kwargs).  missing: a parameter of
\* _validation_kwargs is not given; read: whether read_file raises, and the
\* message of its exception; verdict: what the format's _validate returns
validate(filePathList, missing, read, verdict) ==
    IF missing
    THEN [raised |-> "ValueError", read_called |-> FALSE, validate_called |-> FALSE,
          valid |-> FALSE, errors |-> EMPTY, warnings |-> EMPTY]
    ELSE IF read.raises
    THEN [raised |-> "none", read_called |-> TRUE, validate_called |-> FALSE,
          valid |-> FALSE,
          errors |-> <<"The file(s) (">> \o PyListRepr(filePathList)
                       \o <<") cannot be read", DOT, SPACE, "Original error: ">>
                       \o read.msg,
          warnings |-> EMPTY]
    ELSE [raised |-> "none", read_called |-> TRUE, validate_called |-> TRUE,
          valid |-> verdict.errors = EMPTY,
          errors |-> verdict.errors, warnings |-> verdict.warnings]

ValidateInputs ==
    {PendingCall("validate",
                 [filePathList |-> l, missing |-> m, read |-> r, verdict |-> v]) :
        l \in SeqsUpTo(FilePaths, MaxPaths) \ {<< >>}, m \in BOOLEAN,
        r \in ReadOutcomes,
        v \in [errors : {EMPTY, CONTENT_ERROR}, warnings : {EMPTY, <<"w">>}]}

ValidateInit ==
    /\ PipeIdle
    /\ ReconIdle
    /\ call \in ValidateInputs

CallValidate ==
    /\ call.fn = "validate"
    /\ call.phase = "pending"
    /\ call' = [call EXCEPT
                   !.phase = "done",
                   !.result = validate(call.args.filePathList, call.args.missing,
                                       call.args.read, call.args.verdict)]
    /\ UNCHANGED <<recon, container, statusTable, errorTable, run, runs, edits,
                   changed>>

ValidateNext == CallValidate

ValidateSpec == ValidateInit /\ [][ValidateNext]_vars

---------------------------------------------------------------------------
(* Claims about the reconciler (checked under ReconSpec).                  *)

\* a missing value and the empty text are the same table content
SameCells(c1, c2) ==
    \A col \in Range(RCols) : FillNa(c1[col], EMPTY) = FillNa(c2[col], EMPTY)

TableDf == AsDataFrame(recon.table.rows)

\* C1: reconciling the same desired dataset a second time, against the table
\* the first reconciliation left, emits no append, update or delete (no
\* store call), so the table content stays what the first one made it.
C1_SecondReconcileEmitsNothing ==
    recon.phase = "twice" => recon.emitted = << >>

\* C3: after a reconciliation with to_delete=True the table holds exactly
\* the desired dataset: every key of desired is present, every row with that
\* key carries the values desired gives the key (its first row, when the key
\* is repeated), and no row whose key is absent from desired remains.
C3_TableIsDesired ==
    (recon.phase = "once" /\ recon.to_delete) =>
        /\ \A i \in DOMAIN recon.new :
              \E j \in DOMAIN TableDf :
                 UniqueKey(FillNaRow(TableDf[j], EMPTY), recon.pk)
                    = UniqueKey(FillNaRow(recon.new[i], EMPTY), recon.pk)
        /\ \A j \in DOMAIN TableDf :
              LET k == UniqueKey(FillNaRow(TableDf[j], EMPTY), recon.pk)
                  filled == Map(recon.new, LAMBDA r : FillNaRow(r, EMPTY))
              IN /\ k \in Keys(filled, recon.pk)
                 /\ SameCells(TableDf[j].c, FirstWithKey(filled, recon.pk, k).c)

---------------------------------------------------------------------------
(* Claims about the pipeline.                                              *)

\* the input entities of the run of center c
FilesOf(c) == Flatten(run[c].files)

\* the rows of a table that belong to a center, and those of an entity id
CenterRows(t, c) == SelectSeq(t.rows, LAMBDA r : r.c.center = <<c>>)
RowsWithId(t, id) == SelectSeq(t.rows, LAMBDA r : r.c.id = <<id>>)
RowIds(rows) == {rows[i].c.id : i \in DOMAIN rows}

\* the run of center c has reconciled the error and the status table
Stored(c) == run[c].pc = "statusStored"

\* another input entity of the run has the name of e
SharesName(c, e) ==
    \E i \in DOMAIN FilesOf(c) : FilesOf(c)[i].id # e.id /\ FilesOf(c)[i].name = e.name

\* C2: after a complete run of a center, over submission units of one or
\* two entities, the ids of the center's error rows are the ids of its status
\* rows whose status is INVALID.
C2_ErrorIdsAreInvalidIds ==
    \A c \in Centers :
       Stored(c) =>
          RowIds(CenterRows(errorTable, c))
             = RowIds(SelectSeq(CenterRows(statusTable, c),
                                LAMBDA r : r.c.status = INVALID))

\* C4: a step of the run of center c leaves every row of the status table
\* and of the error table whose center is another center as it was, also
\* when the runs of the centers are interleaved.
C4_OtherCentersUntouched ==
    [][\A c \in Centers :
          run'[c] # run[c] =>
             \A d \in Centers \ {c} :
                /\ CenterRows(statusTable', d) = CenterRows(statusTable, d)
                /\ CenterRows(errorTable', d) = CenterRows(errorTable, d)]_vars

\* the run of c1 has stored rows while the run of c2 is under way and the
\* error table holds a row of c2
C4_Witness ==
    /\ run["c1"].pc = "statusStored"
    /\ run["c1"].emitE # << >>
    /\ run["c1"].emitS # << >>
    /\ run["c2"].pc = "errorsStored"
    /\ CenterRows(errorTable, "c2") # << >>

\* the decision rule for one entity: no status row, a status row of another
\* md5 or name, or a status row INVALID without an error row
NeedsValidation(statusdf, errordf, ent) ==
    LET current_status == WithId(statusdf, ent.id)
    IN \/ current_status = << >>
       \/ current_status[1].c.md5 # ent.md5
       \/ current_status[1].c.name # ent.name
       \/ current_status[1].c.status = INVALID /\ WithId(errordf, ent.id) = << >>

\* C5: check_existing_file_status returns to_validate = true exactly when
\* some entity of the unit, the first or the second, meets the decision rule.
C5_ToValidateIffAnyEntity ==
    \A c \in Centers :
       run[c].pc = "queried" =>
          \A i \in DOMAIN run[c].files :
             check_existing_file_status(run[c].qStatus, run[c].qError,
                                        run[c].files[i]).to_validate
                = (\E k \in DOMAIN run[c].files[i] :
                      NeedsValidation(run[c].qStatus, run[c].qError, run[c].files[i][k]))

\* the entity is as its status row says, the row is VALIDATED and there is
\* no error row for it
CachedValid(c, e) ==
    LET current_status == WithId(run[c].qStatus, e.id)
    IN /\ current_status # << >>
       /\ current_status[1].c.md5 = e.md5
       /\ current_status[1].c.name = e.name
       /\ current_status[1].c.status = VALIDATED
       /\ WithId(run[c].qError, e.id) = << >>

\* the status table holds one row for the id, with that status
RecordedAs(id, status) ==
    /\ Len(RowsWithId(statusTable, id)) = 1
    /\ RowsWithId(statusTable, id)[1].c.status = status

\* C6, as claimed: an unchanged entity whose status row is VALIDATED and that
\* has no error row is not validated again and is recorded VALIDATED again.
C6_CachedStaysValidated ==
    \A c \in Centers :
       Stored(c) =>
          \A i \in DOMAIN FilesOf(c) :
             CachedValid(c, FilesOf(c)[i]) =>
                /\ FilesOf(c)[i].id \notin run[c].called
                /\ RecordedAs(FilesOf(c)[i].id, VALIDATED)

\* C6, amended: such an entity is not validated again, and it is recorded
\* VALIDATED again unless another input entity of the center has its name, in
\* which case it is recorded INVALID with the duplicate-filename error.
C6_CachedNotRevalidated ==
    \A c \in Centers :
       Stored(c) =>
          \A i \in DOMAIN FilesOf(c) :
             LET e == FilesOf(c)[i]
             IN CachedValid(c, e) =>
                   /\ e.id \notin run[c].called
                   /\ IF SharesName(c, e)
                      THEN /\ RecordedAs(e.id, INVALID)
                           /\ RowIds(RowsWithId(errorTable, e.id)) # {}
                           /\ \A j \in DOMAIN RowsWithId(errorTable, e.id) :
                                 RowsWithId(errorTable, e.id)[j].c.errors
                                    = DUPLICATED_FILE_ERROR
                      ELSE /\ RecordedAs(e.id, VALIDATED)
                           /\ RowsWithId(errorTable, e.id) = << >>

\* a run has skipped the validation of an unchanged valid file next to a
\* file it validated
C6_Witness ==
    /\ Stored("c1")
    /\ \E i \in DOMAIN FilesOf("c1") :
          /\ CachedValid("c1", FilesOf("c1")[i])
          /\ ~SharesName("c1", FilesOf("c1")[i])
    /\ run["c1"].called # {}

\* the entity of the run is recorded INVALID with the duplicate-filename
\* error in the snapshot the run queried
WasDuplicate(c, e) ==
    /\ WithId(run[c].qStatus, e.id) # << >>
    /\ WithId(run[c].qStatus, e.id)[1].c.status = INVALID
    /\ WithId(run[c].qError, e.id) # << >>
    /\ WithId(run[c].qError, e.id)[1].c.errors = DUPLICATED_FILE_ERROR

\* the content of the entity passes validation
PassesValidation(e) == validate_single_file(<<e>>, determine_filetype(<<e>>)).valid

\* kept and renamed were recorded as duplicates of one name; since then
\* renamed alone has changed, to a name no other input entity has, and both
\* have content that passes validation
RenamedApart(c, kept, renamed) ==
    /\ kept.id # renamed.id
    /\ WasDuplicate(c, kept) /\ WasDuplicate(c, renamed)
    /\ WithId(run[c].qStatus, kept.id)[1].c.name
          = WithId(run[c].qStatus, renamed.id)[1].c.name
    /\ WithId(run[c].qStatus, kept.id)[1].c.name = kept.name
    /\ WithId(run[c].qStatus, kept.id)[1].c.md5 = kept.md5
    /\ WithId(run[c].qStatus, renamed.id)[1].c.md5 = renamed.md5
    /\ renamed.name # kept.name
    /\ ~SharesName(c, kept) /\ ~SharesName(c, renamed)
    /\ PassesValidation(kept) /\ PassesValidation(renamed)

\* C7, as claimed: when one of two entities recorded as duplicates of a name
\* is renamed before the next run, both having content that passes
\* validation, both have a status row VALIDATED and no error row after it.
C7_BothValidAfterRename ==
    \A c \in Centers :
       Stored(c) =>
          \A i, j \in DOMAIN FilesOf(c) :
             RenamedApart(c, FilesOf(c)[i], FilesOf(c)[j]) =>
                /\ RecordedAs(FilesOf(c)[i].id, VALIDATED)
                /\ RecordedAs(FilesOf(c)[j].id, VALIDATED)
                /\ RowsWithId(errorTable, FilesOf(c)[i].id) = << >>
                /\ RowsWithId(errorTable, FilesOf(c)[j].id) = << >>

\* C7, amended: after that next run the renamed entity has a status row
\* VALIDATED and no error row; the entity that kept the name has no error
\* row and no status row (its rows are purged, it is not validated).
C7_RenamedValidKeptPurged ==
    \A c \in Centers :
       Stored(c) =>
          \A i, j \in DOMAIN FilesOf(c) :
             RenamedApart(c, FilesOf(c)[i], FilesOf(c)[j]) =>
                /\ RecordedAs(FilesOf(c)[j].id, VALIDATED)
                /\ RowsWithId(errorTable, FilesOf(c)[j].id) = << >>
                /\ RowsWithId(statusTable, FilesOf(c)[i].id) = << >>
                /\ RowsWithId(errorTable, FilesOf(c)[i].id) = << >>
                /\ FilesOf(c)[i].id \notin run[c].called

C7_Witness ==
    /\ Stored("c1")
    /\ \E i, j \in DOMAIN FilesOf("c1") :
          RenamedApart("c1", FilesOf("c1")[i], FilesOf("c1")[j])

\* C8: after a run of a center every input entity whose name another input
\* entity of the center has is recorded INVALID, with an error row whose text
\* is the duplicate-filename message, whatever validating its content gave.
C8_DuplicatesInvalid ==
    \A c \in Centers :
       Stored(c) =>
          \A i \in DOMAIN FilesOf(c) :
             SharesName(c, FilesOf(c)[i]) =>
                /\ RecordedAs(FilesOf(c)[i].id, INVALID)
                /\ Len(RowsWithId(errorTable, FilesOf(c)[i].id)) = 1
                /\ RowsWithId(errorTable, FilesOf(c)[i].id)[1].c.errors
                      = DUPLICATED_FILE_ERROR

\* two files of one name have been recorded, one of them with content that
\* passes validation and one with content that does not
C8_Witness ==
    /\ Stored("c1")
    /\ \E i, j \in DOMAIN FilesOf("c1") :
          /\ SharesName("c1", FilesOf("c1")[i])
          /\ FilesOf("c1")[i].name = FilesOf("c1")[j].name
          /\ PassesValidation(FilesOf("c1")[i])
          /\ ~PassesValidation(FilesOf("c1")[j])
          /\ {FilesOf("c1")[i].id, FilesOf("c1")[j].id} \subseteq run["c1"].called

\* the run of center c has come to its end
RunOver(c) == run[c].pc \in {"processed", "nofiles"}

\* C9: when a run of a center ends, no status row and no error row of the
\* center is left for an entity that is no longer in the center's container
\* (the run has emitted their deletes), also when the container is empty.
C9_VanishedRowsDeleted ==
    \A c \in Centers :
       RunOver(c) =>
          \A id \in EntityIds :
             (CenterOf(id) = c /\ container[id] = NoEntity) =>
                /\ <<id>> \notin RowIds(CenterRows(statusTable, c))
                /\ <<id>> \notin RowIds(CenterRows(errorTable, c))

\* C10: a run over input entities that have not changed since the previous
\* run of the center emits nothing to the error table and nothing to the
\* status table.
C10_SecondRunEmitsNothing ==
    \A c \in Centers :
       (run[c].fresh /\ Stored(c)) =>
          /\ run[c].emitE = << >>
          /\ run[c].emitS = << >>

\* C11: in every state reached by runs of the centers, with entities added,
\* changed, renamed or removed between the runs, no two rows of the status
\* table have the same entity id.
C11_OneStatusRowPerId ==
    \A i, j \in DOMAIN statusTable.rows :
       statusTable.rows[i].c.id = statusTable.rows[j].c.id => i = j

\* two runs with a change in between have left rows of several entities, one
\* of them rewritten by the second run
C11_Witness ==
    /\ runs = 2
    /\ edits = 1
    /\ Len(statusTable.rows) >= 2
    /\ \E i \in DOMAIN statusTable.rows : statusTable.rows[i].rver > 1

---------------------------------------------------------------------------
(* Claims about single calls (checked under CallSpec).                     *)

IsPrefix(p, t) == Len(p) =< Len(t) /\ SubSeq(t, 1, Len(p)) = p
IsSuffix(p, t) == Len(p) =< Len(t) /\ SubSeq(t, Len(t) - Len(p) + 1, Len(t)) = p

CollectDone == call.fn = "collect_errors_and_warnings" /\ call.phase = "done"

\* C12: for all error and warning strings, the report of
\* collect_errors_and_warnings is the success banner alone when both are
\* empty; it starts with the ERRORS banner followed by the errors when errors
\* is non-empty; and when warnings is non-empty it ends with the WARNINGS
\* banner followed by the warnings, right after the errors part (the success
\* banner when there are no errors), and holds nothing else.
C12_ReportSections ==
    CollectDone =>
       LET e == call.args.errors
           w == call.args.warnings
           r == call.result
           first == IF e = EMPTY THEN Len(SUCCESS_BANNER)
                    ELSE Len(ERRORS_BANNER) + Len(e)
       IN /\ (e = EMPTY /\ w = EMPTY) => r = SUCCESS_BANNER
          /\ e = EMPTY => IsPrefix(SUCCESS_BANNER, r)
          /\ e # EMPTY => IsPrefix(ERRORS_BANNER, r)
                          /\ SubSeq(r, Len(ERRORS_BANNER) + 1, first) = e
          /\ w # EMPTY => /\ IsSuffix(w, r)
                          /\ SubSeq(r, first + 1, Len(r) - Len(w)) = WARNINGS_BANNER
          /\ w = EMPTY => Len(r) = first

C12_Witness ==
    /\ CollectDone
    /\ call.args.errors # EMPTY
    /\ call.args.warnings # EMPTY
    /\ Len(call.result) > Len(call.args.errors) + Len(call.args.warnings)

SingleFileDone == call.fn = "validate_single_file" /\ call.phase = "done"

\* the file type of the submission of the call is unknown: none was given and
\* no registered format accepts the file name, or the one given is not a key
\* of the registry
UnknownFileType ==
    LET reg == call.args.registry
    IN IF call.args.file_type = NULL
       THEN reg = << >> \/ ~NameAccepted(call.args.entity.name)
       ELSE \A i \in DOMAIN reg : reg[i].key # call.args.file_type

\* C13: when the file type of a submission is unknown, validate_single_file
\* returns valid = false and the report made of the ERRORS banner and the
\* filename-incorrect message, and no format's validate is called.
C13_UnknownTypeReported ==
    (SingleFileDone /\ UnknownFileType) =>
       /\ call.result.raised = "none"
       /\ call.result.valid = FALSE
       /\ call.result.message = ERRORS_BANNER \o FILENAME_ERROR
       /\ ~call.result.validated

UpdateDone == call.fn = "updateDatabase" /\ call.phase = "done"

\* the integer column of the new dataset of the call holds a blank cell
HasBlank == \E i \in DOMAIN call.args.new : call.args.new[i].c.n = NULL

ColAt(col) == CHOOSE j \in DOMAIN call.args.cols : call.args.cols[j] = col

\* the appended and updated rows in the text the call sent
SentRows ==
    {rec \in Range(ReadCsv(call.result)) : Len(rec) = 2 + Len(call.args.cols)}

\* the rows of the new dataset with the key of a sent row
SourcesOf(rec) ==
    {i \in DOMAIN call.args.new : call.args.new[i].c.k = rec[2 + ColAt("k")]}

\* C14 as stated: for a column holding integer values with some blank cells,
\* every cell of that column in the text updateDatabase sends is the
\* integer's digits (or empty for a blank), with no trailing ".0".
C14_AnyIntegerAsDigits ==
    (UpdateDone /\ HasBlank) =>
       \A rec \in SentRows :
          \E i \in SourcesOf(rec) :
             rec[2 + ColAt("n")] = FillNa(call.args.new[i].c.n, EMPTY)

\* C14, amended: no cell of that column in the text sent ends with ".0"; the
\* cell is the integer's digits (empty for a blank) when the integer is below
\* 10^16, and the exponent form of the double from 10^16 on.
C14_SmallIntegerAsDigits ==
    (UpdateDone /\ HasBlank) =>
       \A rec \in SentRows :
          LET cell == rec[2 + ColAt("n")]
          IN /\ ~IsSuffix(<<DOT, ZERO>>, cell)
             /\ \E i \in SourcesOf(rec) :
                   LET n == FillNa(call.args.new[i].c.n, EMPTY)
                   IN IF Len(n) =< 16 THEN cell = n
                      ELSE \E j \in DOMAIN cell : cell[j] = "e+"

C14_Witness ==
    /\ UpdateDone
    /\ HasBlank
    /\ \E rec \in SentRows : rec[2 + ColAt("n")] = <<"1", ZERO>>
    /\ \E rec \in SentRows : rec[2 + ColAt("n")] = EMPTY

---------------------------------------------------------------------------
(* Claims about the order of the steps of a run, its failures and the      *)
(* processing of the valid files.                                          *)

\* update_status_and_error_tables has stored both tables in the run of c
Reconciled(c) == run[c].pc \in {"statusStored", "processed"}

\* C15: within one center's run the steps happen in the order enumerate,
\* validate all, reconcile the status and error tables, notify, process,
\* upload the log: in every state where a notification email of the run has
\* been sent, the run has reconciled the status and the error table.
C15_NoMailBeforeReconciled ==
    \A c \in Centers : run[c].sent # {} => Reconciled(c)

\* C16: if a Gateway call fails at any point of a center's run, the store of
\* the status table after the error table was stored included, the center's
\* rows of the status table and of the error table are the rows the run
\* queried at its start.
C16_FailureLeavesTables ==
    [][\A c \in UnitCenters :
          (run[c].pc \in {"notified", "errorsStored", "statusStored"}
           /\ run'[c].pc = "failed") =>
             /\ CenterQuery(errorTable', c) = run[c].qError
             /\ CenterQuery(statusTable', c) = run[c].qStatus]_vars

\* C17: in a center run a format's process is invoked for a file only if
\* only_validate is false and the file is recorded VALIDATED after the
\* duplicate-filename detection: every processed file is an input file of the
\* run whose content passes validation, whose name no other input file has and
\* whose stored status is VALIDATED.
C17_OnlyValidatedProcessed ==
    \A c \in Centers :
       /\ run[c].processed \subseteq {<<FilesOf(c)[i].id>> : i \in DOMAIN FilesOf(c)}
       /\ \A i \in DOMAIN FilesOf(c) :
             LET e == FilesOf(c)[i]
             IN <<e.id>> \in run[c].processed =>
                   /\ ~run[c].only_validate
                   /\ RecordedAs(e.id, VALIDATED)
                   /\ PassesValidation(e)
                   /\ ~SharesName(c, e)

\* a run has processed one file of the center and not the other, which is
\* recorded INVALID
C17_Witness ==
    /\ run["c1"].pc = "processed"
    /\ run["c1"].processed # {}
    /\ \E i \in DOMAIN FilesOf("c1") :
          /\ <<FilesOf("c1")[i].id>> \notin run["c1"].processed
          /\ RecordedAs(FilesOf("c1")[i].id, INVALID)

\* the rows of a table whose id cell is idcell
RowsOfCell(t, idcell) == SelectSeq(t.rows, LAMBDA r : r.c.id = idcell)

\* the tables hold what the run of c has made of its files: one status row a
\* file, with the status of the run, and an error row for the files the run
\* has an error for and for no other
TablesHoldRun(c) ==
    \A i \in DOMAIN run[c].newStatus :
       LET idcell == run[c].newStatus[i].c.id
       IN /\ Len(RowsOfCell(statusTable, idcell)) = 1
          /\ RowsOfCell(statusTable, idcell)[1].c.status
                = run[c].newStatus[i].c.status
          /\ (RowsOfCell(errorTable, idcell) # << >>)
                <=> (idcell \in IdsOf(run[c].newError))

\* C18: within one center's run the reconciliation of the status table and of
\* the error table has completed before the first format's process begins: no
\* file is processed before the run has come to processfiles, and from the
\* state in which processfiles is about to begin the two tables hold the
\* result of the run's validation.
C18_ReconciledBeforeProcess ==
    \A c \in Centers :
       /\ run[c].processed # {} =>
             run[c].pc \notin {"idle", "nofiles", "enumerated", "queried",
                               "validated", "notified", "errorsStored",
                               "statusStored"}
       /\ (run[c].pc \in {"statusStored", "processed"} /\ ValidFiles(c) # << >>)
             => TablesHoldRun(c)

\* processfiles is about to begin in a run that has stored rows in both tables
C18_Witness ==
    /\ run["c1"].pc = "statusStored"
    /\ ValidFiles("c1") # << >>
    /\ run["c1"].emitE # << >>
    /\ run["c1"].emitS # << >>
    /\ run["c1"].processed = {}

\* a run of c has stopped after the status and error tables were stored and
\* before the valid files were processed
StoppedBeforeProcess(c) ==
    /\ call.fn = "center_input_to_database"
    /\ call.args.center = c
    /\ call.args.at = "statusStored"

\* the files of the run of c with valid content and a name of their own
ValidInputs(c) ==
    {<<FilesOf(c)[i].id>> : i \in {j \in DOMAIN FilesOf(c) :
                                     /\ PassesValidation(FilesOf(c)[j])
                                     /\ ~SharesName(c, FilesOf(c)[j])}}

\* C19: if a run of a center has stopped after the status and error tables
\* were reconciled and before the valid files were processed, a later complete
\* run over unchanged inputs with only_validate false processes every file
\* whose status is VALIDATED, those whose validation comes from the cache
\* included: the files with valid content and a name of their own, as an
\* uninterrupted run does.
C19_RerunProcessesValidated ==
    \A c \in UnitCenters :
       (/\ StoppedBeforeProcess(c)
        /\ run[c].pc = "processed"
        /\ run[c].fresh
        /\ ~run[c].only_validate) =>
          /\ run[c].processed = IdsOf(ValidFiles(c))
          /\ run[c].processed = ValidInputs(c)
          /\ \A idcell \in run[c].processed :
                /\ Len(RowsOfCell(statusTable, idcell)) = 1
                /\ RowsOfCell(statusTable, idcell)[1].c.status = VALIDATED

\* after such a stop, the later run over unchanged inputs has processed a
\* file without validating it again
C19_Witness ==
    /\ StoppedBeforeProcess("c1")
    /\ run["c1"].pc = "processed"
    /\ run["c1"].fresh
    /\ ~run["c1"].only_validate
    /\ \E i \in DOMAIN FilesOf("c1") :
          /\ <<FilesOf("c1")[i].id>> \in run["c1"].processed
          /\ FilesOf("c1")[i].id \notin run["c1"].called

\* the handling of a file of the run of c has raised and ended the run
FileFailed(c) ==
    /\ run[c].pc = "failed"
    /\ call.fn = "center_input_to_database"
    /\ call.args.center = c
    /\ call.args.at \in {"validate", "process"}

\* C20: a failure on one file of a center (an exception of the format's
\* validator or of the format's process) does not keep the remaining files of
\* the center from being validated, recorded in the status table and, when
\* valid, processed in the same run.
C20_FileFailureSparesOthers ==
    \A c \in UnitCenters :
       FileFailed(c) =>
          \A i \in DOMAIN FilesOf(c) :
             LET e == FilesOf(c)[i]
             IN e.id # call.args.file =>
                   /\ RowsWithId(statusTable, e.id) # << >>
                   /\ (PassesValidation(e) /\ ~SharesName(c, e))
                         => <<e.id>> \in run[c].processed

---------------------------------------------------------------------------
(* Claims about one invocation over several centers (LoopSpec).            *)

\* an exception has ended the invocation
ProcessingRaised == call.fn = "processing" /\ call.phase = "raised"

\* C21: when the pipeline is run over several centers and the run of one
\* center fails fatally, the pipelines of the remaining centers are still
\* run: the invocation never ends with an exception before the loop has
\* started the run of every center.
C21_RemainingCentersRun ==
    ProcessingRaised => runs = Len(CenterOrder)

---------------------------------------------------------------------------
(* Further claims about the reconciler (ReconSpec).                        *)

\* the desired dataset with its blanks filled, as updateDatabase compares it
Desired == Map(recon.new, LAMBDA r : FillNaRow(r, EMPTY))

\* the append and update records of the text the reconciliation sent, and
\* its delete records
SentChanges ==
    SelectSeq(ReadCsv(recon.emitted), LAMBDA rec : Len(rec) = 2 + Len(RCols))
SentDeletes ==
    SelectSeq(ReadCsv(recon.emitted), LAMBDA rec : Len(rec) = 2)

ColIndex(col) == CHOOSE j \in DOMAIN RCols : RCols[j] = col

\* the UNIQUE_KEY of a sent record
RecKey(rec) ==
    Join([i \in DOMAIN recon.pk |-> rec[2 + ColIndex(recon.pk[i])]], SPACE)

\* the cells a row of desired has once written to the text and read back
AsSent(row) ==
    ReadCsv(Sanitize(CsvLine([j \in DOMAIN RCols |-> row.c[RCols[j]]])))[1]

\* C22: when desired holds several rows with the same UNIQUE_KEY, only the
\* first of them is used: for a key of desired at most one append is sent, or
\* else at most one update for an existing row of that key, and what is sent
\* carries the values of the first row of desired with that key.
C22_FirstOfDuplicateKeys ==
    recon.phase = "once" =>
       \A k \in Keys(Desired, recon.pk) :
          LET recs == SelectSeq(SentChanges, LAMBDA rec : RecKey(rec) = k)
              appends == SelectSeq(recs, LAMBDA rec : rec[1] = EMPTY)
              updates == SelectSeq(recs, LAMBDA rec : rec[1] # EMPTY)
          IN /\ Len(appends) =< 1
             /\ appends = << >> \/ updates = << >>
             /\ \A m, n \in DOMAIN updates :
                   updates[m][1] = updates[n][1] => m = n
             /\ \A n \in DOMAIN recs :
                   SubSeq(recs[n], 3, Len(recs[n]))
                      = AsSent(FirstWithKey(Desired, recon.pk, k))

\* the snapshot the last reconciliation has worked on
Snapshot == Map(AsDataFrame(recon.before.rows), LAMBDA r : FillNaRow(r, EMPTY))

\* the rows of the snapshot whose identifier "<rowId>_<rowVersion>" has the
\* two parts rid and rver
SnapshotRows(rid, rver) ==
    SelectSeq(Snapshot, LAMBDA r : r.idx = rid \o <<USCORE>> \o rver)

\* C23: every update the reconciler sends carries the ROW_ID and ROW_VERSION
\* of an existing row that has the UNIQUE_KEY of the update, every delete
\* carries the identifier of an existing row whose key is absent from desired,
\* and appends carry no identifier: no identifier is sent that the snapshot
\* does not hold.
C23_IdentifiersCarried ==
    recon.phase \in {"once", "twice"} =>
       /\ \A n \in DOMAIN SentChanges :
             LET rec == SentChanges[n]
             IN IF rec[1] = EMPTY THEN rec[2] = EMPTY
                ELSE \E m \in DOMAIN SnapshotRows(rec[1], rec[2]) :
                        UniqueKey(SnapshotRows(rec[1], rec[2])[m], recon.pk)
                           = RecKey(rec)
       /\ \A n \in DOMAIN SentDeletes :
             LET rec == SentDeletes[n]
             IN /\ recon.to_delete
                /\ \E m \in DOMAIN SnapshotRows(rec[1], rec[2]) :
                      UniqueKey(SnapshotRows(rec[1], rec[2])[m], recon.pk)
                         \notin Keys(Desired, recon.pk)

\* a reconciliation has sent the update of the second row of the table, a
\* and a delete
C23_Witness ==
    /\ recon.phase = "once"
    /\ \E n \in DOMAIN SentChanges :
          SentChanges[n][1] = <<"2">> /\ SentChanges[n][2] = <<"1">>
    /\ SentDeletes # << >>


\* the submission unit has been validated in the run of center c and found
\* invalid
FoundInvalid(c, unit) ==
    /\ {unit[i].id : i \in DOMAIN unit} \subseteq run[c].called
    /\ ~validate_single_file(unit, determine_filetype(unit)).valid

\* the users of every entity of the unit
UnitUsers(unit) ==
    UNION {{unit[i].createdBy, unit[i].modifiedBy} : i \in DOMAIN unit}

\* the users whose mail of the run of center c reports the unit
NotifiedAbout(c, unit) ==
    {m.user : m \in
        {n \in run[c].sent :
            \E i \in DOMAIN n.body :
               /\ n.body[i].filenames = Map(unit, LAMBDA e : e.name)
               /\ n.body[i].messages
                     = validate_single_file(unit, determine_filetype(unit)).message}}

\* C24: for each submission unit found invalid in a run of a center, the users
\* notified about it are exactly the users who created or modified any entity
\* of the unit, and each of them gets one mail in the run.
C24_UsersOfEveryEntity ==
    \A c \in Centers :
       run[c].pc = "notified" =>
          /\ \A k \in DOMAIN run[c].files :
                FoundInvalid(c, run[c].files[k]) =>
                   NotifiedAbout(c, run[c].files[k]) = UnitUsers(run[c].files[k])
          /\ \A m, n \in run[c].sent : m.user = n.user => m = n


\* the rows of the queried table whose key the new dataset does not have
AbsentRows ==
    {i \in DOMAIN recon.before.rows :
        UniqueKey(Snapshot[i], recon.pk) \notin Keys(Desired, recon.pk)}

\* C25: with to_delete false the reconciler sends no delete: every row of the
\* table whose key is absent from the new dataset stays in the table as it
\* was, and with an empty new dataset nothing is sent and the table is left
\* as it was.
C25_NoDeleteUnlessAsked ==
    (recon.phase \in {"once", "twice"} /\ ~recon.to_delete) =>
       /\ SentDeletes = << >>
       /\ \A i \in AbsentRows :
             \E j \in DOMAIN recon.table.rows :
                recon.table.rows[j] = recon.before.rows[i]
       /\ recon.new = << >> =>
             (recon.emitted = << >> /\ recon.calls = 0 /\ recon.table = recon.before)

\* a reconciliation without deletes has changed the table and has left a
\* row of a key that the new dataset does not have
C25_Witness ==
    /\ recon.phase = "once"
    /\ ~recon.to_delete
    /\ AbsentRows # {}
    /\ SentChanges # << >>


---------------------------------------------------------------------------
(* Claims about the columns and the keys of the reconciled datasets.       *)

\* C26: when the column set of the new dataset differs from that of the
\* table (a column of the table missing from it, or a column the table does
\* not have), updateDatabase fails with an error and writes no row change.
C26_ColumnMismatchFails ==
    (call.fn = "updateDatabase" /\ call.phase = "done"
     /\ call.args.newcols # Range(TCols)) =>
        /\ call.result.raised # "none"
        /\ call.result.emitted = << >>


---------------------------------------------------------------------------
(* Claims about FileTypeFormat.validate.                                   *)

\* the text t holds the text p
Contains(t, p) ==
    \E i \in 0..(Len(t) - Len(p)) : SubSeq(t, i + 1, i + Len(p)) = p

\* validate has returned or raised after read_file raised
ReadRaised ==
    /\ call.fn = "validate"
    /\ call.phase = "done"
    /\ call.result.read_called
    /\ call.args.read.raises

\* C27: when the read of the file(s) raises, validate returns valid = false
\* with an error text that holds every file path and the message of the
\* exception, does not call _validate and raises nothing.
C27_ReadFailureReported ==
    ReadRaised =>
       /\ call.result.raised = "none"
       /\ ~call.result.valid
       /\ ~call.result.validate_called
       /\ Contains(call.result.errors, call.args.read.msg)
       /\ \A i \in DOMAIN call.args.filePathList :
             Contains(call.result.errors, call.args.filePathList[i])


\* repr() writes the path as it is
WrittenAsIs(path) == ~Has(path, BSLASH) /\ ~(Has(path, APOS) /\ Has(path, QUOTE))

\* C27, amended: when the read of the file(s) raises, validate returns
\* valid = false, does not call _validate and raises nothing; the error text
\* holds the message of the exception and the list of the file paths as
\* Python writes it, so it holds a path itself when repr() escapes none of
\* its characters.
C27_ReadFailureReportedAsRepr ==
    ReadRaised =>
       /\ call.result.raised = "none"
       /\ ~call.result.valid
       /\ ~call.result.validate_called
       /\ call.result.warnings = EMPTY
       /\ Contains(call.result.errors, call.args.read.msg)
       /\ Contains(call.result.errors, PyListRepr(call.args.filePathList))
       /\ \A i \in DOMAIN call.args.filePathList :
             WrittenAsIs(call.args.filePathList[i]) =>
                Contains(call.result.errors, call.args.filePathList[i])

\* the read of two files, one of them with a backslash in its path, has
\* raised an exception with a message
C27_Witness ==
    /\ ReadRaised
    /\ Len(call.args.filePathList) = 2
    /\ call.args.read.msg # EMPTY
    /\ \E i, j \in DOMAIN call.args.filePathList :
          /\ Has(call.args.filePathList[i], BSLASH)
          /\ WrittenAsIs(call.args.filePathList[j])


---------------------------------------------------------------------------
(* Claims about the keys and the text cells of the reconciled rows.        *)

\* the values of the primary-key columns of a row
KeyTuple(row, pk) == [i \in DOMAIN pk |-> row.c[pk[i]]]

\* the rows a reconciliation has compared: the queried table and the new
\* dataset
Compared == Snapshot \o Desired

\* C28: two rows whose primary-key value tuples differ never get the same
\* UNIQUE_KEY, whatever the primary key and the values (also values with
\* spaces): in a reconciliation no row of the new dataset shares its key
\* with a row that has other primary-key values.
C28_KeysDistinguishRows ==
    recon.phase = "once" =>
       \A i, j \in DOMAIN Compared :
          KeyTuple(Compared[i], recon.pk) # KeyTuple(Compared[j], recon.pk) =>
             UniqueKey(Compared[i], recon.pk) # UniqueKey(Compared[j], recon.pk)


\* C29: a file that is recorded INVALID with an error row and whose id, md5
\* and name have not changed causes no notification in later runs: a run of a
\* center over inputs that have not changed since its previous run sends no
\* mail, for files invalid by content and for files of a duplicated name.
\* (Checked on the runs whose file names the store of the tables keeps as
\* they are, none ending in ".0".)
C29_NoMailForUnchangedFiles ==
    \A c \in Centers :
       (/\ run[c].fresh
        /\ run[c].pc = "notified"
        /\ \A i \in DOMAIN FilesOf(c) : ~IsSuffix(<<DOT, ZERO>>, FilesOf(c)[i].name))
          => run[c].sent = {}


\* C30: the integer sanitation of updateDatabase changes numeric cells only:
\* the cells of every appended or updated row are sent character for
\* character as a row of the new dataset has them, also a text cell that ends
\* in ".0".
C30_TextCellsSentAsTheyAre ==
    recon.phase = "once" =>
       \A n \in DOMAIN SentChanges :
          \E i \in DOMAIN Desired :
             \A j \in DOMAIN RCols :
                SentChanges[n][2 + j] = Desired[i].c[RCols[j]]

====
